---- MODULE Spec2Model ----
(***************************************************************************)
(* Billet recovery calculator (src/Billet_opti.py).                        *)
(*                                                                         *)
(* The script reads six sidebar inputs, and when the guard of the core     *)
(* logic accepts them it walks the fixed list of billet lengths, records   *)
(* one result per billet whose extrusion length is at most 28 m and keeps  *)
(* the billet of greatest recovery among those whose margin exceeds 15 %   *)
(* of the extrusion length.                                                *)
(*                                                                         *)
(* Numbers: the script computes in binary floating point.  A float is      *)
(* held as the rational [n |-> numerator, d |-> denominator > 0] it        *)
(* denotes, in lowest terms.  Every literal and every *, / and - is        *)
(* rounded to the nearest float of MantissaBits significant bits, ties to  *)
(* even, as IEEE 754 does with 53 bits; the exponent is unbounded (the     *)
(* script's values stay far from overflow and underflow).  Comparisons     *)
(* and floor are exact, as they are on floats.  cut_length and kg_per_m    *)
(* are decimal inputs on a grid of 1/Scale; num_holes and butt_weight are  *)
(* integers as in the widgets.  The guard is modelled over the values it   *)
(* tests (zero included), not only over the values the widgets let         *)
(* through.                                                                *)
(***************************************************************************)
EXTENDS Integers, Sequences, FiniteSets, TLC

----------------------------------------------------------------------------
(* Floating point arithmetic of the script.                                *)

\* significant bits of a float (53 in the script's doubles)
MantissaBits == 11

Abs(x) == IF x < 0 THEN -x ELSE x

\* greatest common divisor (Euclid)
GCD[a \in Int, b \in Int] == IF b = 0 THEN Abs(a) ELSE GCD[b, a % Abs(b)]

\* gcd that is never 0, usable as a divisor
G(a, b) == IF a = 0 /\ b = 0 THEN 1 ELSE GCD[a, b]

\* n/d with both divided by g, the sign carried by the numerator
Reduce[n \in Int, d \in Int, g \in Int] ==
    IF d < 0 THEN [n |-> (-n) \div g, d |-> (-d) \div g]
             ELSE [n |-> n \div g, d |-> d \div g]

\* n/d in lowest terms with a positive denominator (d # 0)
Rat(n, d) == Reduce[n, d, G(n, d)]

\* the values: rationals in lowest terms
Q == [n : Int, d : Nat]

FromInt(i) == [n |-> i, d |-> 1]

\* the nearest float to a / d, for a > 0 and d > 0, as <<m, k>> standing
\* for m * 2^k: a / d is scaled by powers of 2 into
\* [2^(MantissaBits-1), 2^MantissaBits) and rounded to an integer there
RoundPos[a \in Nat, d \in Nat] ==
    IF a \div d >= 2 ^ MantissaBits
    THEN LET r == IF a % 2 = 0 THEN RoundPos[a \div 2, d]
                               ELSE RoundPos[a, 2 * d]
         IN  <<r[1], r[2] + 1>>
    ELSE IF a \div d < 2 ^ (MantissaBits - 1)
         THEN LET r == IF d % 2 = 0 THEN RoundPos[a, d \div 2]
                                    ELSE RoundPos[2 * a, d]
              IN  <<r[1], r[2] - 1>>
         ELSE IF 2 * (a % d) > d \/ (2 * (a % d) = d /\ (a \div d) % 2 = 1)
              THEN <<(a \div d) + 1, 0>>
              ELSE <<a \div d, 0>>

\* the value s * m * 2^k of a sign s and a rounded <<m, k>>
Scaled[s \in Int, r \in Int \X Int] ==
    IF r[2] >= 0 THEN FromInt(s * r[1] * 2 ^ r[2])
                 ELSE Rat(s * r[1], 2 ^ (0 - r[2]))

\* round to nearest, ties to even
Fl[x \in Q] ==
    IF x.n = 0 THEN x
    ELSE IF x.n > 0 THEN Scaled[1, RoundPos[x.n, x.d]]
         ELSE Scaled[-1, RoundPos[-x.n, x.d]]

\* a decimal literal or decimal input n/d read as a float
Float(n, d) == Fl[Rat(n, d)]

\* x * y exactly, g1 and g2 cancelled across before multiplying
MulG[x \in Q, y \in Q, g1 \in Int, g2 \in Int] ==
    Rat((x.n \div g1) * (y.n \div g2), (x.d \div g2) * (y.d \div g1))

\* the exact product
MulQ(x, y) == MulG[x, y, G(x.n, y.d), G(y.n, x.d)]

\* x - y exactly, over the least common denominator, g = gcd(x.d, y.d)
SubG[x \in Q, y \in Q, g \in Int] ==
    Rat(x.n * (y.d \div g) - y.n * (x.d \div g), (x.d \div g) * y.d)

\* the exact difference
SubQ(x, y) == SubG[x, y, G(x.d, y.d)]

\* x * y
Mul[x \in Q, y \in Q] == Fl[MulQ(x, y)]

\* x / y   (y # 0)
Div[x \in Q, y \in Q] == Fl[MulQ(x, Rat(y.d, y.n))]

\* x - y
Sub[x \in Q, y \in Q] == Fl[SubQ(x, y)]

\* x < y by cross multiplication, gn and gd cancelled first
LessG[x \in Q, y \in Q, gn \in Int, gd \in Int] ==
    (x.n \div gn) * (y.d \div gd) < (y.n \div gn) * (x.d \div gd)

\* x < y
Less[x \in Q, y \in Q] == LessG[x, y, G(x.n, y.n), G(x.d, y.d)]

Greater(x, y) == Less[y, x]

LessEq(x, y) == ~ Less[y, x]

\* np.floor: the greatest integer not above x
Floor[x \in Q] == x.n \div x.d

\* Python's max(0, v)
Max0(v) == IF 0 < v THEN v ELSE 0

----------------------------------------------------------------------------
(* Constants of the script.                                                *)

\* conversion_factor = 1.1115
conversion_factor == Float(11115, 10000)

billet_lengths == <<80, 78, 76, 75, 73, 70, 67, 65, 63, 60, 58, 55, 53, 50, 48>>

\* the handling limit of `if output_len > 28`
MaxExtrusion == 28

\* the share of `margin_length > 0.15 * output_len`
MarginShare == Float(15, 100)

\* best_billet_length = None; a chosen billet b is held as <<b>>
None == << >>

----------------------------------------------------------------------------
(* Bounds of the input space.                                              *)

\* cut_length and kg_per_m are multiples of 1/Scale
Scale == 10

MaxHoles == 3

\* cut_length * Scale
CutUnits == {0, 5, 9, 25, 49, 300}

\* kg_per_m * Scale
KgUnits == {0, 3, 10, 179}

\* butt_weight
ButtWeights == {0, 1, 3, 60}

----------------------------------------------------------------------------
VARIABLES
    optimize,            \* the button
    cut_length,          \* rational
    num_holes,           \* integer
    kg_per_m,            \* rational
    caustic_etching,     \* "Yes" or "No"
    butt_weight,         \* integer
    pc,                  \* "guard", "loop", "report", "done"
    idx,                 \* position of the for loop in billet_lengths
    best_billet_length,  \* None or <<b>>
    max_recovery,        \* rational
    recovery_results,    \* the four dicts, keyed by billet length
    margin_results,
    pcs_results,
    extrusion_results,
    shown                \* what the page shows: "nothing", "optimal",
                         \* "no_criteria" or "invalid"

inputs == <<optimize, cut_length, num_holes, kg_per_m, caustic_etching,
            butt_weight>>

dicts == <<recovery_results, margin_results, pcs_results, extrusion_results>>

vars == <<optimize, cut_length, num_holes, kg_per_m, caustic_etching,
          butt_weight, pc, idx, best_billet_length, max_recovery,
          recovery_results, margin_results, pcs_results, extrusion_results,
          shown>>

----------------------------------------------------------------------------
(* One pass of the loop body for billet length b, line by line.            *)

rounding_option == IF caustic_etching = "Yes" THEN 2 ELSE 1

billet_wt(b) == Mul[FromInt(b), conversion_factor]

output_len(b) ==
    Div[Sub[billet_wt(b), FromInt(butt_weight)],
        Mul[FromInt(num_holes), kg_per_m]]

\* variant: the filter tests the length before the butt is taken off
TooLong_ButtIgnored(b) ==
    Greater(Div[billet_wt(b), Mul[FromInt(num_holes), kg_per_m]],
            FromInt(MaxExtrusion))

\* `if output_len > 28: continue`
TooLong(b) == Greater(output_len(b), FromInt(MaxExtrusion))

output_pcs(b) == Div[output_len(b), cut_length]

\* variant: the special case takes the closed interval 1 <= raw <= 2
RoundPieces_Closed(raw, option) ==
    IF LessEq(FromInt(1), raw) /\ LessEq(raw, FromInt(2))
    THEN Floor[raw]
    ELSE IF option = 1
         THEN Floor[raw]
         ELSE Floor[raw] - 1

\* the if / elif / else on output_pcs and rounding_option
RoundPieces(raw, option) ==
    IF Less[FromInt(1), raw] /\ Less[raw, FromInt(2)]
    THEN Floor[raw]
    ELSE IF option = 1
         THEN Floor[raw]
         ELSE Floor[raw] - 1

\* variant: the clamp to 0 is missing
output_pcs_margin_NoClamp(b) == RoundPieces(output_pcs(b), rounding_option)

output_pcs_margin(b) == Max0(RoundPieces(output_pcs(b), rounding_option))

margin_length(b) ==
    Sub[output_len(b), Mul[FromInt(output_pcs_margin(b)), cut_length]]

output_wt(b) ==
    Mul[Mul[Mul[FromInt(output_pcs_margin(b)), cut_length],
            FromInt(num_holes)], kg_per_m]

recovery(b) == Mul[Div[output_wt(b), billet_wt(b)], FromInt(100)]

\* `margin_length > 0.15 * output_len`
MarginOk(b) == Greater(margin_length(b), Mul[MarginShare, output_len(b)])

\* variant: the margin test is missing
Improves_NoMargin(b, best) == Greater(recovery(b), best)

\* variant: the recovery is compared with 0, not with the best so far
Improves_NotMax(b, best) == Greater(recovery(b), FromInt(0)) /\ MarginOk(b)

\* variant: >= in place of >
Improves_OnTies(b, best) == LessEq(best, recovery(b)) /\ MarginOk(b)

\* `recovery > max_recovery and margin_length > 0.15 * output_len`
Improves(b, best) == Greater(recovery(b), best) /\ MarginOk(b)

\* d[k] = v
Put(d, k, v) == (k :> v) @@ d

----------------------------------------------------------------------------
TypeOK ==
    /\ optimize \in BOOLEAN
    /\ caustic_etching \in {"Yes", "No"}
    /\ num_holes \in 0..MaxHoles
    /\ butt_weight \in ButtWeights
    /\ pc \in {"guard", "loop", "report", "done"}
    /\ idx \in 1..(Len(billet_lengths) + 1)
    /\ shown \in {"nothing", "optimal", "no_criteria", "invalid"}

Init ==
    /\ optimize \in BOOLEAN
    /\ \E c \in CutUnits : cut_length = Float(c, Scale)
    /\ num_holes \in 0..MaxHoles
    /\ \E k \in KgUnits : kg_per_m = Float(k, Scale)
    /\ caustic_etching \in {"Yes", "No"}
    /\ butt_weight \in ButtWeights
    /\ pc = "guard"
    /\ idx = 1
    /\ best_billet_length = None
    /\ max_recovery = FromInt(0)
    /\ recovery_results = << >>
    /\ margin_results = << >>
    /\ pcs_results = << >>
    /\ extrusion_results = << >>
    /\ shown = "nothing"

\* `if optimize and cut_length > 0 and num_holes > 0 and kg_per_m > 0`
GuardAccepts ==
    /\ optimize
    /\ Greater(cut_length, FromInt(0))
    /\ num_holes > 0
    /\ Greater(kg_per_m, FromInt(0))

\* the guard holds: initialise the search
EnterCore ==
    /\ pc = "guard"
    /\ GuardAccepts
    /\ best_billet_length' = None
    /\ max_recovery' = FromInt(0)
    /\ recovery_results' = << >>
    /\ margin_results' = << >>
    /\ pcs_results' = << >>
    /\ extrusion_results' = << >>
    /\ idx' = 1
    /\ pc' = "loop"
    /\ UNCHANGED <<inputs, shown>>

\* the else branch: "Please enter valid values ..."
WarnInvalid ==
    /\ pc = "guard"
    /\ ~ GuardAccepts
    /\ shown' = "invalid"
    /\ pc' = "done"
    /\ UNCHANGED <<inputs, idx, best_billet_length, max_recovery, dicts>>

\* a loop pass that ends at `continue`
LoopContinue ==
    /\ pc = "loop"
    /\ idx <= Len(billet_lengths)
    /\ TooLong(billet_lengths[idx])
    /\ idx' = idx + 1
    /\ UNCHANGED <<inputs, pc, best_billet_length, max_recovery, dicts, shown>>

\* a loop pass that records the billet and may make it the best
LoopRecord ==
    /\ pc = "loop"
    /\ idx <= Len(billet_lengths)
    /\ LET b == billet_lengths[idx] IN
        /\ ~ TooLong(b)
        /\ recovery_results' = Put(recovery_results, b, recovery(b))
        /\ margin_results' = Put(margin_results, b, margin_length(b))
        /\ pcs_results' = Put(pcs_results, b, output_pcs_margin(b))
        /\ extrusion_results' = Put(extrusion_results, b, output_len(b))
        /\ IF Improves(b, max_recovery)
           THEN /\ max_recovery' = recovery(b)
                /\ best_billet_length' = <<b>>
           ELSE UNCHANGED <<max_recovery, best_billet_length>>
    /\ idx' = idx + 1
    /\ UNCHANGED <<inputs, pc, shown>>

\* the for loop is exhausted
LoopExit ==
    /\ pc = "loop"
    /\ idx > Len(billet_lengths)
    /\ pc' = "report"
    /\ UNCHANGED <<inputs, idx, best_billet_length, max_recovery, dicts, shown>>

\* `if best_billet_length is not None`: the three metrics
ShowOptimal ==
    /\ pc = "report"
    /\ best_billet_length # None
    /\ shown' = "optimal"
    /\ pc' = "done"
    /\ UNCHANGED <<inputs, idx, best_billet_length, max_recovery, dicts>>

\* else: "No billet length meets the criteria ..."
ShowNoCriteria ==
    /\ pc = "report"
    /\ best_billet_length = None
    /\ shown' = "no_criteria"
    /\ pc' = "done"
    /\ UNCHANGED <<inputs, idx, best_billet_length, max_recovery, dicts>>

Next ==
    \/ EnterCore
    \/ WarnInvalid
    \/ LoopContinue
    \/ LoopRecord
    \/ LoopExit
    \/ ShowOptimal
    \/ ShowNoCriteria

Spec == Init /\ [][Next]_vars

----------------------------------------------------------------------------
(* Vocabulary of the properties.                                           *)

\* the core logic has been entered (the guard accepted the inputs)
InCore == pc \in {"loop", "report"} \/ (pc = "done" /\ shown # "invalid")

\* the loop has gone through every billet length
LoopOver == InCore /\ pc # "loop"

\* billet lengths the loop has already passed
Visited == {billet_lengths[i] : i \in 1..(idx - 1)}

\* the result list: the keys of recovery_results
ResultList == DOMAIN recovery_results

\* the specification's valid input
ValidInput ==
    /\ Greater(cut_length, FromInt(0))
    /\ num_holes >= 1
    /\ Greater(kg_per_m, FromInt(0))
    /\ butt_weight >= 1

\* billet weight b * 1.1115
BilletWeight(b) == Mul[FromInt(b), Float(11115, 10000)]

\* extrusionLength of billet b, from the inputs alone
ExtrusionLength(b) ==
    Div[Sub[BilletWeight(b), FromInt(butt_weight)],
        Mul[FromInt(num_holes), kg_per_m]]

\* rawPieces of a recorded billet
RawPieces(b) == Div[extrusion_results[b], cut_length]

\* a recorded billet passes the 15 % margin test
Eligible(b) ==
    Greater(margin_results[b], Mul[Float(15, 100), extrusion_results[b]])

\* position of billet length b in the fixed candidate order
Pos(b) == CHOOSE i \in 1..Len(billet_lengths) : billet_lengths[i] = b

\* the selected billet length, when there is one
Best == best_billet_length[1]

----------------------------------------------------------------------------
\* C1: once the guard has accepted the inputs, the keys of the result dicts
\* are exactly the billet lengths passed so far whose extrusionLength is at
\* most 28: none above 28 is recorded and none at or below 28 is left out,
\* whatever its margin.
C1_ResultListIsFeasibleSet ==
    InCore =>
        /\ ResultList
             = {b \in Visited : LessEq(ExtrusionLength(b), FromInt(28))}
        /\ DOMAIN extrusion_results = ResultList
        /\ DOMAIN margin_results = ResultList
        /\ DOMAIN pcs_results = ResultList
        /\ \A b \in ResultList : extrusion_results[b] = ExtrusionLength(b)

\* a finished run that left out a billet above 28 m and recorded one that
\* fails the margin test
C1_Witness ==
    /\ LoopOver
    /\ \E b \in Visited : Greater(ExtrusionLength(b), FromInt(28))
    /\ \E b \in ResultList : ~ Eligible(b)

\* C2: a finished run reports no optimum only when no billet passed both
\* the 28 m filter and the 15 % margin test.
C2_NoOptimumOnlyWhenNoneQualifies ==
    (LoopOver /\ best_billet_length = None) =>
        ~ \E b \in ResultList : Eligible(b)

\* C3: for valid inputs every recorded billet has a piece count that is a
\* non-negative integer and a margin, extrusionLength - pieces * cutLength,
\* that is not negative.
C3_PiecesAndMarginNonNegative ==
    (InCore /\ ValidInput) =>
        \A b \in ResultList :
            /\ pcs_results[b] \in Nat
            /\ margin_results[b]
                 = Sub[extrusion_results[b],
                       Mul[FromInt(pcs_results[b]), cut_length]]
            /\ LessEq(FromInt(0), margin_results[b])

\* C4: the selected billet is in the result list and its margin is strictly
\* above 15 % of its extrusion length.
C4_OptimumIsEligible ==
    (InCore /\ best_billet_length # None) =>
        /\ Best \in ResultList
        /\ Eligible(Best)

\* an optimum is shown although a billet of higher recovery was recorded
\* that fails the margin test
C4_Witness ==
    /\ shown = "optimal"
    /\ \E b \in ResultList :
        /\ ~ Eligible(b)
        /\ Greater(recovery_results[b], recovery_results[Best])

\* C5: the selected billet's recovery is at least the recovery of every
\* recorded billet that passes the margin test, and max_recovery is it.
C5_OptimumIsMaximal ==
    (InCore /\ best_billet_length # None) =>
        /\ max_recovery = recovery_results[Best]
        /\ \A b \in ResultList :
            Eligible(b) => LessEq(recovery_results[b], recovery_results[Best])

\* an optimum is shown, and both before and after it in the list there is
\* an eligible billet of strictly lower recovery
C5_Witness ==
    /\ shown = "optimal"
    /\ \E b1, b2 \in ResultList :
        /\ Pos(b1) < Pos(Best) /\ Pos(Best) < Pos(b2)
        /\ Eligible(b1) /\ Eligible(b2)
        /\ Less[recovery_results[b1], recovery_results[Best]]
        /\ Less[recovery_results[b2], recovery_results[Best]]

C7_RecoveryWithinBounds ==
    (InCore /\ ValidInput) =>
        \A b \in ResultList :
            /\ recovery_results[b]
                 = Mul[Div[Mul[Mul[Mul[FromInt(pcs_results[b]), cut_length],
                                   FromInt(num_holes)], kg_per_m],
                           BilletWeight(b)],
                       FromInt(100)]
            /\ LessEq(FromInt(0), recovery_results[b])
            /\ LessEq(recovery_results[b], FromInt(100))

\* a valid run with etching that recorded a billet whose piece count was
\* clamped to 0 and another one with a positive recovery
C7_Witness ==
    /\ LoopOver /\ ValidInput /\ caustic_etching = "Yes"
    /\ \E b \in ResultList :
        /\ Less[RawPieces(b), FromInt(1)]
        /\ recovery_results[b] = FromInt(0)
    /\ \E b \in ResultList : Greater(recovery_results[b], FromInt(0))

\* the rounding function as the specification words it
RefPieces(raw, etching) ==
    IF Less[FromInt(1), raw] /\ Less[raw, FromInt(2)]
    THEN 1
    ELSE IF etching
         THEN Max0(Floor[raw] - 1)
         ELSE Max0(Floor[raw])

\* C8: every recorded piece count is the reference rounding of
\* rawPieces = extrusionLength / cutLength under the etching flag.
C8_PiecesFollowRoundingPolicy ==
    InCore =>
        \A b \in ResultList :
            pcs_results[b] = RefPieces(RawPieces(b), caustic_etching = "Yes")

\* an etching run that recorded rawPieces = 2 exactly (one piece), a
\* rawPieces strictly between 1 and 2 (one piece) and a rawPieces above 3
C8_WitnessEtching ==
    /\ LoopOver /\ caustic_etching = "Yes"
    /\ \E b \in ResultList : RawPieces(b) = FromInt(2) /\ pcs_results[b] = 1
    /\ \E b \in ResultList :
        /\ Less[FromInt(1), RawPieces(b)] /\ Less[RawPieces(b), FromInt(2)]
        /\ pcs_results[b] = 1

C10_MarginBoundedByRounding ==
    InCore =>
        \A b \in ResultList :
            LessEq(FromInt(0), extrusion_results[b]) =>
                /\ caustic_etching = "No" =>
                    /\ LessEq(FromInt(0), margin_results[b])
                    /\ Less[margin_results[b], cut_length]
                /\ (caustic_etching = "Yes"
                      /\ LessEq(FromInt(2), RawPieces(b))) =>
                    /\ LessEq(cut_length, margin_results[b])
                    /\ Less[margin_results[b], Mul[FromInt(2), cut_length]]
                /\ pcs_results[b] = 0 =>
                    margin_results[b] = extrusion_results[b]

====
